---- MODULE Spec2Model ----
(***************************************************************************)
(* Forecasting pipeline of scripts/run_pipeline.py: the walk-forward       *)
(* (expanding window) trainer, the holdout evaluator, the accuracy         *)
(* aggregator and the save of all result tables to the warehouse.          *)
(*                                                                         *)
(* A DataFrame is a record [columns, rows]: columns is the set of column   *)
(* names and rows the sequence of rows, each a function from the columns.  *)
(* A nullable cell (features, targets, actual, and what pd.concat fills    *)
(* in) is <<>> for NaN and <<v>> for the number v; year, week_number,      *)
(* week_key, the grouping columns, predicted and the tags are plain        *)
(* values.  Names of entities are numbered in their sort order.            *)
(*                                                                         *)
(* Recruitment ETL of scripts/transform_silver.py and                      *)
(* scripts/transform_gold.py: the bronze tables are cleaned and merged     *)
(* into silver.jobs, from which the star schema of the gold layer is       *)
(* built.  A database table is the sequence of its rows, NULL is the       *)
(* empty tuple and a value v of a nullable column the tuple <<v>>, a text  *)
(* is a sequence of characters, a date a record [y, m, d].                 *)
(***************************************************************************)
EXTENDS Integers, Sequences, FiniteSets, TLC

VARIABLES
    entry,                  \* the function the run was started at
    pc,                     \* position of the run
    error,                  \* the exception that ended the run, or "none"
    warehouse,              \* family -> id of its feature table, or Absent
    xgboost, lightgbm,      \* whether the optional libraries can be imported
    args,                   \* the command line flags given to main
    models_to_run,          \* main: the families selected
    run_i,                  \* main: index of the family being run
    all_results,            \* main: family -> its results, or None
    model_name,             \* the family being processed
    min_train_weeks,        \* train_expanding_window: its parameter
    df,                     \* the loaded feature table
    weeks,                  \* train_expanding_window: sorted distinct year_week
    wf_i,                   \* train_expanding_window: loop index i
    all_predictions,        \* train_expanding_window: list of pred_df
    fits,                   \* the calls of model.fit made by the walk-forward loop
    expanding_predictions,  \* the table train_expanding_window returned
    final,                  \* what train_final_model returned and computed
    breakdowns,             \* what calculate_accuracy_breakdowns returned
    sink,                   \* result table name -> its rows in the warehouse
    sink0,                  \* the sink's contents when main started
    save_i,                 \* save_all_results: index of the next table write
    loaded,                 \* the families whose table was loaded
    etl_entry,              \* the ETL scripts the run is made of
    etl_pc,                 \* position of the ETL run
    etl_error,              \* the exception that ended the ETL run, or "none"
    raw_jobs_history,       \* bronze.raw_jobs_history
    raw_jobs_api,           \* bronze.raw_jobs_api
    jobs,                   \* silver.jobs
    dim_department,         \* gold.dim_department
    dim_location,           \* gold.dim_location
    dim_date,               \* gold.dim_date
    fact_jobs               \* gold.fact_jobs

vars == <<entry, pc, error, warehouse, xgboost, lightgbm, args, models_to_run,
          run_i, all_results, model_name, min_train_weeks, df, weeks, wf_i,
          all_predictions, fits, expanding_predictions, final, breakdowns,
          sink, sink0, save_i, loaded, etl_entry, etl_pc, etl_error,
          raw_jobs_history, raw_jobs_api, jobs, dim_department, dim_location,
          dim_date, fact_jobs>>

\* the state of the forecasting pipeline
pipeline_vars == <<entry, pc, error, warehouse, xgboost, lightgbm, args, models_to_run,
                   run_i, all_results, model_name, min_train_weeks, df, weeks, wf_i,
                   all_predictions, fits, expanding_predictions, final, breakdowns,
                   sink, sink0, save_i, loaded>>

\* the state of the recruitment database
etl_vars == <<etl_entry, etl_pc, etl_error, raw_jobs_history, raw_jobs_api, jobs,
              dim_department, dim_location, dim_date, fact_jobs>>

\* no ETL script runs and the database is empty
EtlIdle ==
    /\ etl_entry = "none"
    /\ etl_pc = "idle"
    /\ etl_error = "none"
    /\ raw_jobs_history = <<>>
    /\ raw_jobs_api = <<>>
    /\ jobs = <<>>
    /\ dim_department = <<>>
    /\ dim_location = <<>>
    /\ dim_date = <<>>
    /\ fact_jobs = <<>>

----------------------------------------------------------------------------
(* Configuration *)

MODEL_CONFIGS ==
    [demand |->
        [table |-> "ml_demand_features",
         target |-> "target_next_week",
         features |-> <<"week_sin", "week_cos", "is_valentines", "is_easter_period",
                        "is_mothers_day", "is_christmas", "is_summer", "quarter",
                        "stems_lag_1w", "stems_lag_2w", "stems_lag_4w", "stems_lag_52w",
                        "stems_rolling_4w_avg", "stems_rolling_8w_avg",
                        "variety_avg_stems", "variety_std_stems", "variety_week_count",
                        "customer_avg_stems", "customer_std_stems">>,
         group_cols |-> <<"variety_name", "sub_customer_name">>],
     dispatch |->
        [table |-> "ml_dispatch_features",
         target |-> "target_next_week",
         features |-> <<"week_sin", "week_cos", "is_valentines", "is_easter_period",
                        "is_mothers_day", "is_christmas", "is_summer", "quarter",
                        "dispatch_lag_1w", "dispatch_lag_2w", "dispatch_lag_4w",
                        "dispatch_lag_52w",
                        "dispatch_rolling_4w_avg", "dispatch_rolling_8w_avg",
                        "orders_lag_1w", "orders_lag_4w",
                        "current_fill_rate", "fill_rate_rolling_4w",
                        "customer_avg_dispatch", "customer_std_dispatch",
                        "customer_avg_fill_rate">>,
         group_cols |-> <<"sub_customer_name">>],
     production |->
        [table |-> "ml_production_features",
         target |-> "target_next_week",
         features |-> <<"week_sin", "week_cos", "is_growing_season", "quarter",
                        "stems_lag_1w", "stems_lag_2w", "stems_lag_4w", "stems_lag_52w",
                        "stems_rolling_4w_avg", "stems_rolling_8w_avg",
                        "farm_avg_stems", "farm_std_stems",
                        "variety_avg_stems", "variety_std_stems">>,
         group_cols |-> <<"farm", "variety_name">>],
     rejection |->
        [table |-> "ml_rejection_features",
         target |-> "target_rejection_rate",
         features |-> <<"week_sin", "week_cos", "is_summer_heat", "is_winter",
                        "is_peak_demand", "quarter",
                        "rejection_rate_lag_1w", "rejection_rate_lag_2w",
                        "rejection_rate_lag_4w",
                        "rejection_rate_rolling_4w", "rejection_rate_rolling_8w",
                        "farm_avg_rejection_rate", "variety_avg_rejection_rate">>,
         group_cols |-> <<"farm", "variety_name">>]]

Families == <<"demand", "dispatch", "production", "rejection">>

\* train_expanding_window(..., min_train_weeks: int = 12)
DefaultMinTrainWeeks == 12

\* if len(train_clean) < 100: continue
MinTrainRows == 100

----------------------------------------------------------------------------
(* DataFrames *)

NaN == <<>>

None == [none |-> TRUE]

\* a feature table that is not in the warehouse
Absent == [absent |-> TRUE]

\* the element of a one-element set: The({e}) evaluates e once
The(S) == CHOOSE x \in S : TRUE

\* the set of the elements of a sequence
Range(s) == UNION {{t[k] : k \in 1..Len(t)} : t \in {s}}

\* rows[c] as a sequence
Column(rows, c) == [k \in 1..Len(rows) |-> rows[k][c]]

\* pd.DataFrame()
EmptyFrame == [columns |-> {}, rows |-> <<>>]

\* pd.isna on a nullable cell
IsNa(cell) == cell = NaN

\* .fillna(0) on a nullable cell, read as a number
FillNa0(cell) == IF cell = NaN THEN 0 ELSE cell[1]

Abs(x) == IF x < 0 THEN -x ELSE x

\* rows.dropna(subset=subset): the rows with no NaN in the subset columns
DropNa(rows, subset) ==
    LET cols == Range(subset) IN SelectSeq(rows, LAMBDA r : \A c \in cols : ~IsNa(r[c]))

\* the present features with the last one left out
AvailableFeaturesShort(frame, name) ==
    LET present == SelectSeq(MODEL_CONFIGS[name].features, LAMBDA f : f \in frame.columns)
    IN  SubSeq(present, 1, Len(present) - 1)

\* [f for f in feature_cols if f in df.columns]
AvailableFeatures(frame, name) ==
    SelectSeq(MODEL_CONFIGS[name].features, LAMBDA f : f \in frame.columns)

\* df['year_week'] = df['year'] * 100 + df['week_number']
WithYearWeek(frame) ==
    [columns |-> frame.columns \cup {"year_week"},
     rows |-> [k \in 1..Len(frame.rows) |->
                 [c \in frame.columns \cup {"year_week"} |->
                    IF c = "year_week"
                    THEN frame.rows[k]["year"] * 100 + frame.rows[k]["week_number"]
                    ELSE frame.rows[k][c]]]]

Min(S) == CHOOSE x \in S : \A y \in S : x <= y

RECURSIVE SortedSeq(_)
\* sorted(set of integers)
SortedSeq(S) ==
    IF S = {} THEN <<>> ELSE <<Min(S)>> \o SortedSeq(S \ {Min(S)})

\* sorted(df['year_week'].unique())
SortedWeeks(frame) == SortedSeq({frame.rows[k]["year_week"] : k \in 1..Len(frame.rows)})

RECURSIVE FlattenBackwards(_)
\* the frames concatenated last first
FlattenBackwards(list) ==
    IF list = <<>> THEN <<>> ELSE FlattenBackwards(Tail(list)) \o Head(list)

RECURSIVE Flatten(_)
\* the rows of pd.concat(list, ignore_index=True) for frames of equal columns
Flatten(list) ==
    IF list = <<>> THEN <<>> ELSE Head(list) \o Flatten(Tail(list))

----------------------------------------------------------------------------
(* The feature tables the runs are given.  A table is a sequence of week   *)
(* blocks; a block of kind "one" is a single clean row (one entity), a     *)
(* block "big" has MinTrainRows clean rows, a block "mixed" has MixedRows clean *)
(* rows of target 0, then NullRows rows with a NaN target, then NullRows   *)
(* rows with a NaN in the last feature column present, a block "void" has  *)
(* NullRows rows, all with a NaN target.                                   *)

MaxWeeks == 3
MaxMinTrainWeeks == 2
MixedRows == 45
NullRows == 3
ScenarioWeeks == 20
ScenarioRows == 9
FirstYear == 2023
FirstWeek == 50
TargetValue == 100

BlockKinds == {"one", "big", "mixed"}

BlockOf(kind) ==
    CASE kind = "one"   -> [clean |-> 1, null_target |-> 0, null_feature |-> 0, target |-> TargetValue]
      [] kind = "big"   -> [clean |-> MinTrainRows, null_target |-> 0, null_feature |-> 0,
                            target |-> TargetValue]
      [] kind = "mixed" -> [clean |-> MixedRows, null_target |-> NullRows,
                            null_feature |-> NullRows, target |-> 0]
      [] kind = "nine"  -> [clean |-> ScenarioRows, null_target |-> 0, null_feature |-> 0,
                            target |-> TargetValue]
      [] kind = "void"  -> [clean |-> 0, null_target |-> NullRows, null_feature |-> 0,
                            target |-> TargetValue]

Plans == UNION {[1..n -> BlockKinds] : n \in 0..MaxWeeks}

ScenarioPlans == {[k \in 1..ScenarioWeeks |-> "one"], [k \in 1..ScenarioWeeks |-> "nine"]}

\* tables with a week none of whose rows has a target
VoidWeekPlans == {<<"void", "big", "one">>, <<"big", "void", "mixed">>}

\* the variants of a family's table: "plain" has every declared column,
\* "reversed" has the rows in descending order, "no_features" lacks the last
\* two declared features, "no_target" lacks the target column
Variants == {"plain", "reversed", "no_features", "no_target"}

YearOf(k) == FirstYear + (FirstWeek + k - 2) \div 52
WeekOf(k) == ((FirstWeek + k - 2) % 52) + 1

ColumnsOf(name, variant) ==
    LET cfg == MODEL_CONFIGS[name]
        nf  == Len(cfg.features)
        fs  == IF variant = "no_features"
               THEN Range(SubSeq(cfg.features, 1, nf - 2))
               ELSE Range(cfg.features)
    IN  {"year", "week_number", "week_key"} \cup Range(cfg.group_cols) \cup fs
          \cup (IF variant = "no_target" THEN {} ELSE {cfg.target})

\* the feature column that holds the NaN of a null-feature row
LastFeature(name, cols) ==
    LET avail == SelectSeq(MODEL_CONFIGS[name].features, LAMBDA f : f \in cols)
    IN  avail[Len(avail)]

\* row j of the block b of week k
RowOf(name, cols, last, b, k, j) ==
    LET cfg == MODEL_CONFIGS[name]
    IN  [c \in cols |->
           CASE c = "year" -> YearOf(k)
             [] c = "week_number" -> WeekOf(k)
             [] c = "week_key" -> YearOf(k) * 100 + WeekOf(k)
             [] c = cfg.group_cols[Len(cfg.group_cols)] -> j
             [] c = cfg.group_cols[1] /\ Len(cfg.group_cols) > 1 -> (j % 3) + 1
             [] c = cfg.target ->
                  IF j > b.clean /\ j <= b.clean + b.null_target THEN NaN ELSE <<b.target>>
             [] OTHER ->
                  IF j > b.clean + b.null_target /\ c = last THEN NaN ELSE <<j % 2>>]

\* the rows of the block of week k
BlockRows(name, cols, last, kind, k) ==
    The({[j \in 1..(b.clean + b.null_target + b.null_feature) |->
            RowOf(name, cols, last, b, k, j)] : b \in {BlockOf(kind)}})

RECURSIVE PlanRows(_, _, _, _, _)
PlanRows(name, cols, last, plan, k) ==
    IF k > Len(plan) THEN <<>>
    ELSE BlockRows(name, cols, last, plan[k], k) \o PlanRows(name, cols, last, plan, k + 1)

Reverse(s) == [k \in 1..Len(s) |-> s[Len(s) + 1 - k]]

\* client.query("SELECT * FROM table").to_dataframe()
TableOf(id) ==
    The(UNION {{[columns |-> cols,
                 rows |-> IF id.variant = "reversed" THEN Reverse(rows) ELSE rows] :
                   rows \in {PlanRows(id.name, cols, LastFeature(id.name, cols), id.plan, 1)}} :
               cols \in {ColumnsOf(id.name, id.variant)}})

----------------------------------------------------------------------------
(* Regression models.  A fitted model is [bias, w]: it predicts            *)
(* bias + w * (the first feature).  What a fit returns is not computed:    *)
(* on a constant training target the tree ensembles of scikit-learn        *)
(* predict that constant, otherwise any model of Models may result.        *)

Models == {[bias |-> 0, w |-> 0], [bias |-> 0, w |-> 1], [bias |-> TargetValue, w |-> 0]}

\* model.fit(X_train, y_train)
FitOutcomes(algorithm, y_train) ==
    LET values == Range(y_train)
    IN  IF algorithm # "XGBoost" /\ Cardinality(values) = 1
        THEN {[bias |-> y[1], w |-> 0] : y \in values}
        ELSE Models

\* model.predict(X) for one row of X = rows[features].fillna(0)
Predict(model, r, features) ==
    IF features = <<>> THEN model.bias
    ELSE model.bias + model.w * FillNa0(r[features[1]])

----------------------------------------------------------------------------
(* train_expanding_window *)

\* the slice taken one week too far: weeks[:i+1]
TrainWeeksLeaky(ws, i) == SubSeq(ws, 1, i + 1)

\* train_weeks = weeks[:i]
TrainWeeks(ws, i) == SubSeq(ws, 1, i)

\* df[df['year_week'].isin(train_weeks)]
TrainRows(frame, train_weeks) ==
    LET keys == Range(train_weeks) IN SelectSeq(frame.rows, LAMBDA r : r["year_week"] \in keys)

\* df[df['year_week'] == target_week]
TestRows(frame, target_week) ==
    SelectSeq(frame.rows, LAMBDA r : r["year_week"] = target_week)

\* the floor counted before the rows with NaN are dropped
TooFewRowsUncleaned(train_df, train_clean) == Len(train_df) < MinTrainRows

\* the floor set at a tenth of the rows
TooFewRowsTenth(train_df, train_clean) == Len(train_clean) < MinTrainRows \div 10

\* len(train_clean) < 100
TooFewRows(train_df, train_clean) == Len(train_clean) < MinTrainRows

\* test_df.dropna(subset=available_features)
TestClean(test_df, features) == DropNa(test_df, features)

\* the loop started at the first week
FirstTargetZero(m) == 0

\* the loop runs over weeks[min_train_weeks:], i starting at min_train_weeks
FirstTarget(m) == m

PredColumns(name) ==
    {"year", "week_number", "week_key"} \cup Range(MODEL_CONFIGS[name].group_cols)
      \cup {"predicted", "actual", "model_type", "train_weeks"}

\* pred_df of one target week
PredRows(test_clean, name, model, features, train_weeks) ==
    [k \in 1..Len(test_clean) |->
       [c \in PredColumns(name) |->
          CASE c = "predicted" -> Predict(model, test_clean[k], features)
            [] c = "actual" -> test_clean[k][MODEL_CONFIGS[name].target]
            [] c = "model_type" -> name
            [] c = "train_weeks" -> Len(train_weeks)
            [] OTHER -> test_clean[k][c]]]

\* lines 171-184: the year_week column is added to df itself
WFStart ==
    /\ pc = "wf_start"
    /\ df' = WithYearWeek(df)
    /\ weeks' = SortedWeeks(df')
    /\ wf_i' = FirstTarget(min_train_weeks)
    /\ all_predictions' = <<>>
    /\ pc' = "wf_loop"
    /\ UNCHANGED etl_vars
    /\ UNCHANGED <<entry, error, warehouse, xgboost, lightgbm, args, models_to_run, run_i,
                   all_results, model_name, min_train_weeks, fits, expanding_predictions,
                   final, breakdowns, sink, sink0, save_i, loaded>>

\* one iteration of the loop of lines 186-228
WFStep ==
    /\ pc = "wf_loop"
    /\ wf_i < Len(weeks)
    /\ \E features \in {AvailableFeatures(df, model_name)},
          train_weeks \in {TrainWeeks(weeks, wf_i)},
          test_df \in {TestRows(df, weeks[wf_i + 1])} :
         IF Len(test_df) = 0
         THEN /\ wf_i' = wf_i + 1
              /\ UNCHANGED <<pc, error, all_predictions, fits>>
         ELSE IF MODEL_CONFIGS[model_name].target \notin df.columns
         THEN \* dropna(subset=[target_col] + ...) raises KeyError
              /\ pc' = "raised"
              /\ error' = "KeyError"
              /\ UNCHANGED <<wf_i, all_predictions, fits>>
         ELSE \E train_df \in {TrainRows(df, train_weeks)} :
              \E train_clean \in {DropNa(train_df,
                                         <<MODEL_CONFIGS[model_name].target>> \o features)},
                 test_clean \in {TestClean(test_df, features)} :
              IF TooFewRows(train_df, train_clean) \/ Len(test_clean) = 0
              THEN /\ wf_i' = wf_i + 1
                   /\ UNCHANGED <<pc, error, all_predictions, fits>>
              ELSE \E model \in FitOutcomes("GradientBoosting",
                                            Column(train_clean,
                                                   MODEL_CONFIGS[model_name].target)) :
                   /\ all_predictions' =
                        Append(all_predictions,
                               PredRows(test_clean, model_name, model, features,
                                        train_weeks))
                   /\ fits' = Append(fits,
                                     [target_week |-> weeks[wf_i + 1],
                                      features |-> features,
                                      train_keys |-> Range(Column(train_clean, "year_week")),
                                      train_rows |-> Len(train_clean),
                                      test_rows |-> Len(test_clean)])
                   /\ wf_i' = wf_i + 1
                   /\ UNCHANGED <<pc, error>>
    /\ UNCHANGED etl_vars
    /\ UNCHANGED <<entry, warehouse, xgboost, lightgbm, args, models_to_run, run_i,
                   all_results, model_name, min_train_weeks, df, weeks,
                   expanding_predictions, final, breakdowns, sink, sink0, save_i, loaded>>

\* lines 230-236
WFResult(name, list) ==
    IF list # <<>>
    THEN [columns |-> PredColumns(name), rows |-> Flatten(list)]
    ELSE EmptyFrame

WFFinish ==
    /\ pc = "wf_loop"
    /\ wf_i >= Len(weeks)
    /\ expanding_predictions' = WFResult(model_name, all_predictions)
    /\ pc' = IF entry = "main" THEN "final" ELSE "returned"
    /\ UNCHANGED etl_vars
    /\ UNCHANGED <<entry, error, warehouse, xgboost, lightgbm, args, models_to_run, run_i,
                   all_results, model_name, min_train_weeks, df, weeks, wf_i,
                   all_predictions, fits, final, breakdowns, sink, sink0, save_i, loaded>>

----------------------------------------------------------------------------
(* prepare_data and train_final_model *)

RECURSIVE SumTo(_, _)
\* s[1] + ... + s[n]
SumTo(s, n) == IF n = 0 THEN 0 ELSE s[n] + SumTo(s, n - 1)

\* np.sum of a sequence of numbers
Sum(s) == SumTo(s, Len(s))

\* a float quotient num/den: "finite" num/den with den > 0, "inf" or "nan"
Quotient(num, den) ==
    IF den # 0 THEN [kind |-> "finite", num |-> num, den |-> den]
    ELSE IF num = 0 THEN [kind |-> "nan", num |-> 0, den |-> 0]
    ELSE [kind |-> "inf", num |-> 0, den |-> 0]

\* float('inf')
Infinity == [kind |-> "inf", num |-> 0, den |-> 0]

\* a < b on floats: false when either is nan
Less(a, b) ==
    /\ a.kind = "finite"
    /\ \/ b.kind = "inf"
       \/ /\ b.kind = "finite"
          /\ IF a.den = b.den THEN a.num < b.num
             ELSE a.num * b.den < b.num * a.den

\* the metadata columns prepare_data keeps
MetaColumns(frame, name) ==
    ({"year", "week_number", "week_key"} \cup Range(MODEL_CONFIGS[name].group_cols))
      \cap frame.columns

\* prepare_data, lines 149-162, for a table that has the target column: the
\* rows of df_clean, from which X, y and metadata are column slices
PrepareData(frame, name) ==
    [clean |-> DropNa(frame.rows,
                      <<MODEL_CONFIGS[name].target>> \o AvailableFeatures(frame, name)),
     feature_names |-> AvailableFeatures(frame, name),
     meta_cols |-> MetaColumns(frame, name)]

\* the split point rounded up instead of truncated
NTrainCeil(n) == (n * 8 + 9) \div 10

\* n_train = int(len(X) * (1 - test_size)) with test_size = 0.2
NTrain(n) == (n * 8) \div 10

\* the roster in the order the dict models is filled
Roster(xgb, lgbm) ==
    <<"RandomForest", "GradientBoosting">>
      \o (IF xgb THEN <<"XGBoost">> ELSE <<>>)
      \o (IF lgbm THEN <<"LightGBM">> ELSE <<>>)

\* wmape = np.sum(np.abs(y_test - y_pred)) / np.sum(np.abs(y_test)) * 100
Wmape(y_test, y_pred) ==
    Quotient(100 * Sum([k \in 1..Len(y_test) |-> Abs(y_test[k] - y_pred[k])]),
             Sum([k \in 1..Len(y_test) |-> Abs(y_test[k])]))

\* the row of results for the k-th algorithm
MetricRow(name, algorithm, y_test, y_pred, n_train) ==
    [model_type |-> name,
     algorithm |-> algorithm,
     abs_error |-> Sum([k \in 1..Len(y_test) |-> Abs(y_test[k] - y_pred[k])]),
     wmape |-> Wmape(y_test, y_pred),
     train_samples |-> n_train,
     test_samples |-> Len(y_test)]

RECURSIVE BestAfter(_, _)
\* the index of the best algorithm after the first k of the loop of lines
\* 280-308, 0 for best_model = None
BestAfter(results, k) ==
    IF k = 0 THEN 0
    ELSE LET before == BestAfter(results, k - 1)
             best_wmape == IF before = 0 THEN Infinity ELSE results[before].wmape
         IN  IF Less(results[k].wmape, best_wmape) THEN k ELSE before

\* importance_df: one row per feature of the best model, sorted by importance
\* descending
ImportanceRows(name, feature_names, model) ==
    LET imp(k) == IF k = 1 /\ model.w # 0 THEN 1 ELSE 0
        row(k) == [model_type |-> name, feature |-> feature_names[k],
                   importance |-> imp(k)]
        all == [k \in 1..Len(feature_names) |-> row(k)]
    IN  SelectSeq(all, LAMBDA r : r.importance = 1)
          \o SelectSeq(all, LAMBDA r : r.importance = 0)

FinalColumns(meta_cols) == meta_cols \cup {"actual", "predicted", "model_type", "algorithm"}

\* predictions_df, lines 323-327
FinalPredictions(test, meta_cols, name, target, model, algorithm, features) ==
    [k \in 1..Len(test) |->
       [c \in FinalColumns(meta_cols) |->
          CASE c = "actual" -> test[k][target]
            [] c = "predicted" -> Predict(model, test[k], features)
            [] c = "model_type" -> name
            [] c = "algorithm" -> algorithm
            [] OTHER -> test[k][c]]]

\* what train_final_model computes once the models of the roster are fitted
FinalOutcome(prep, name, roster, fitted) ==
    LET target  == MODEL_CONFIGS[name].target
        n_train == NTrain(Len(prep.clean))
        test    == SubSeq(prep.clean, n_train + 1, Len(prep.clean))
        y_test  == [k \in 1..Len(test) |-> test[k][target][1]]
        y_pred(a) == [k \in 1..Len(test) |-> Predict(fitted[a], test[k], prep.feature_names)]
        results == [a \in 1..Len(roster) |->
                      MetricRow(name, roster[a], y_test, y_pred(a), n_train)]
    IN  The({[metrics |-> res,
              best |-> best,
              n_train |-> n_train,
              feature_names |-> prep.feature_names,
              y_train |-> Column(SubSeq(prep.clean, 1, n_train), target),
              importance |->
                  IF best = 0 THEN <<>>
                  ELSE ImportanceRows(name, prep.feature_names, fitted[best]),
              predictions |->
                  IF best = 0 THEN <<>>
                  ELSE FinalPredictions(test, prep.meta_cols, name, target, fitted[best],
                                        roster[best], prep.feature_names),
              pred_columns |-> FinalColumns(prep.meta_cols)] :
                res \in {results}, best \in {BestAfter(results, Len(roster))}})

\* train_final_model
TrainFinal ==
    /\ pc = "final"
    /\ IF MODEL_CONFIGS[model_name].target \notin df.columns
       THEN \* prepare_data raises ValueError
            /\ pc' = "raised"
            /\ error' = "ValueError: target column not found"
            /\ UNCHANGED final
       ELSE \E prep \in {PrepareData(df, model_name)} :
            IF NTrain(Len(prep.clean)) = 0
            THEN \* model.fit on no rows raises ValueError
                 /\ pc' = "raised"
                 /\ error' = "ValueError: fit on 0 samples"
                 /\ UNCHANGED final
            ELSE \E roster \in {Roster(xgboost, lightgbm)},
                    y_train \in {Column(SubSeq(prep.clean, 1, NTrain(Len(prep.clean))),
                                        MODEL_CONFIGS[model_name].target)} :
                 \E fitted \in [1..Len(roster) -> Models] :
                 /\ \A a \in 1..Len(roster) : fitted[a] \in FitOutcomes(roster[a], y_train)
                 /\ \E out \in {FinalOutcome(prep, model_name, roster, fitted)} :
                      /\ final' = out
                      /\ IF out.best = 0
                         THEN \* best_model.predict with best_model = None
                              /\ pc' = "raised"
                              /\ error' = "AttributeError: best_model is None"
                         ELSE /\ pc' = IF entry = "main" THEN "breakdowns" ELSE "returned"
                              /\ UNCHANGED error
    /\ UNCHANGED etl_vars
    /\ UNCHANGED <<entry, warehouse, xgboost, lightgbm, args, models_to_run, run_i,
                   all_results, model_name, min_train_weeks, df, weeks, wf_i,
                   all_predictions, fits, expanding_predictions, breakdowns, sink, sink0,
                   save_i, loaded>>

----------------------------------------------------------------------------
(* calculate_accuracy_breakdowns *)

MinPair(S) ==
    CHOOSE p \in S : \A q \in S : p[1] < q[1] \/ (p[1] = q[1] /\ p[2] <= q[2])

RECURSIVE SortedPairs(_)
\* the keys of groupby(['year', 'week_number']) in their sorted order
SortedPairs(S) ==
    IF S = {} THEN <<>> ELSE <<MinPair(S)>> \o SortedPairs(S \ {MinPair(S)})

\* the division without the clip on the denominator
GroupWmapeUnfloored(abs_error, actual) == Quotient(100 * abs_error, actual)

\* abs_error / actual.clip(lower=1) * 100 on the sums of a group
GroupWmape(abs_error, actual) == Quotient(100 * abs_error, IF actual < 1 THEN 1 ELSE actual)

\* .agg({'actual': 'sum', 'predicted': 'sum', 'abs_error': 'sum'}) of a group,
\* with wmape and model_type added
GroupAggregate(rows, name) ==
    The({[actual |-> actual, predicted |-> Sum(Column(rows, "predicted")),
          abs_error |-> abs_error, wmape |-> GroupWmape(abs_error, actual),
          model_type |-> name] :
            actual \in {Sum([k \in 1..Len(rows) |-> FillNa0(rows[k]["actual"])])},
            abs_error \in {Sum([k \in 1..Len(rows) |->
                                  Abs(FillNa0(rows[k]["actual"]) - rows[k]["predicted"])])}})

\* the weekly rollup, lines 346-353
WeeklyRollup(rows, name) ==
    LET keys == SortedPairs({<<rows[k]["year"], rows[k]["week_number"]>> : k \in 1..Len(rows)})
    IN  [g \in 1..Len(keys) |->
           [year |-> keys[g][1], week_number |-> keys[g][2]]
             @@ GroupAggregate(SelectSeq(rows, LAMBDA r : r["year"] = keys[g][1]
                                                 /\ r["week_number"] = keys[g][2]),
                               name)]

\* the rollup by one grouping column, lines 358-365
GroupRollup(rows, col, name) ==
    LET keys == SortedSeq({rows[k][col] : k \in 1..Len(rows)})
    IN  [g \in 1..Len(keys) |->
           (col :> keys[g])
             @@ GroupAggregate(SelectSeq(rows, LAMBDA r : r[col] = keys[g]), name)]

\* the grouping columns a rollup is computed for
RollupColumns(columns, name) == Range(MODEL_CONFIGS[name].group_cols) \cap columns

\* calculate_accuracy_breakdowns: the dict breakdowns
Breakdowns(rows, columns, name) ==
    [b \in {"weekly"} \cup RollupColumns(columns, name) |->
       IF b = "weekly" THEN WeeklyRollup(rows, name) ELSE GroupRollup(rows, b, name)]

----------------------------------------------------------------------------
(* main, run_model_pipeline and save_all_results *)

NoTables == [f \in Range(Families) |-> Absent]

ResultTables == <<"ml_predictions_python", "ml_model_comparison", "ml_feature_importance",
                  "ml_accuracy_by_week", "ml_accuracy_by_customer",
                  "ml_accuracy_by_variety">>

EmptySink == [t \in Range(ResultTables) |-> <<>>]

Flags == {"all", "demand", "dispatch", "production", "rejection"}

\* every family run when no flag is given
ModelsToRunDefaultAll(flags) ==
    IF flags = {} \/ "all" \in flags THEN Families
    ELSE SelectSeq(Families, LAMBDA f : f \in flags)

\* lines 490-502
ModelsToRun(flags) ==
    IF "all" \in flags THEN Families
    ELSE SelectSeq(Families, LAMBDA f : f \in flags)

\* lines 504-510
MainStart ==
    /\ pc = "main"
    /\ models_to_run' = ModelsToRun(args)
    /\ pc' = IF ModelsToRun(args) = <<>> THEN "usage" ELSE "run"
    /\ run_i' = 0
    /\ all_results' = <<>>
    /\ UNCHANGED etl_vars
    /\ UNCHANGED <<entry, error, warehouse, xgboost, lightgbm, args, model_name,
                   min_train_weeks, df, weeks, wf_i, all_predictions, fits,
                   expanding_predictions, final, breakdowns, sink, sink0, save_i, loaded>>

\* a check that never fails
AlwaysExists(tables, name) == TRUE

\* check_feature_table_exists
CheckFeatureTableExists(tables, name) == tables[name] # Absent

\* all_results[model_name] = results
Record(results, name, value) ==
    [f \in DOMAIN results \cup {name} |-> IF f = name THEN value ELSE results[f]]

\* run_model_pipeline, lines 385-393, and main's line 516 when it returns None
RunCheck ==
    /\ pc = "run"
    /\ run_i < Len(models_to_run)
    /\ model_name' = models_to_run[run_i + 1]
    /\ IF CheckFeatureTableExists(warehouse, models_to_run[run_i + 1])
       THEN /\ pc' = "load"
            /\ UNCHANGED <<run_i, all_results>>
       ELSE /\ all_results' = Record(all_results, models_to_run[run_i + 1], None)
            /\ run_i' = run_i + 1
            /\ UNCHANGED pc
    /\ UNCHANGED etl_vars
    /\ UNCHANGED <<entry, error, warehouse, xgboost, lightgbm, args, models_to_run,
                   min_train_weeks, df, weeks, wf_i, all_predictions, fits,
                   expanding_predictions, final, breakdowns, sink, sink0, save_i, loaded>>

\* run_model_pipeline, lines 395-403
Load ==
    /\ pc = "load"
    /\ IF warehouse[model_name] = Absent
       THEN \* the query of a missing table raises NotFound
            /\ pc' = "raised"
            /\ error' = "NotFound"
            /\ UNCHANGED <<df, loaded, all_results, run_i, min_train_weeks, fits>>
       ELSE \E frame \in {TableOf(warehouse[model_name])} :
            /\ df' = frame
            /\ loaded' = loaded \cup {model_name}
            /\ fits' = <<>>
            /\ IF Len(frame.rows) = 0
               THEN /\ all_results' = Record(all_results, model_name, None)
                    /\ run_i' = run_i + 1
                    /\ pc' = "run"
                    /\ UNCHANGED min_train_weeks
               ELSE /\ min_train_weeks' = DefaultMinTrainWeeks
                    /\ pc' = "wf_start"
                    /\ UNCHANGED <<all_results, run_i>>
            /\ UNCHANGED error
    /\ UNCHANGED etl_vars
    /\ UNCHANGED <<entry, warehouse, xgboost, lightgbm, args, models_to_run, model_name,
                   weeks, wf_i, all_predictions, expanding_predictions, final, breakdowns,
                   sink, sink0, save_i>>

\* run_model_pipeline, lines 410-420, and main's line 516
BreakdownsStep ==
    /\ pc = "breakdowns"
    /\ \E b \in {Breakdowns(final.predictions, final.pred_columns, model_name)} :
         /\ breakdowns' = b
         /\ all_results' =
              Record(all_results, model_name,
                     [expanding_predictions |-> expanding_predictions,
                      final_predictions |-> [columns |-> final.pred_columns,
                                             rows |-> final.predictions],
                      metrics |-> final.metrics,
                      importance |-> final.importance,
                      breakdowns |-> b])
    /\ run_i' = run_i + 1
    /\ pc' = "run"
    /\ df' = EmptyFrame
    /\ weeks' = <<>>
    /\ wf_i' = 0
    /\ all_predictions' = <<>>
    /\ UNCHANGED etl_vars
    /\ UNCHANGED <<entry, error, warehouse, xgboost, lightgbm, args, models_to_run,
                   model_name, min_train_weeks, fits, expanding_predictions, final, sink,
                   sink0, save_i, loaded>>

\* main, line 519: every family was run
RunDone ==
    /\ pc = "run"
    /\ run_i = Len(models_to_run)
    /\ pc' = "save"
    /\ save_i' = 0
    /\ UNCHANGED etl_vars
    /\ UNCHANGED <<entry, error, warehouse, xgboost, lightgbm, args, models_to_run, run_i,
                   all_results, model_name, min_train_weeks, df, weeks, wf_i,
                   all_predictions, fits, expanding_predictions, final, breakdowns, sink,
                   sink0, loaded>>

\* a row of pd.concat: the columns a frame lacks are NaN
Widen(r, from, columns) == [c \in columns |-> IF c \in from THEN r[c] ELSE NaN]

RECURSIVE ConcatFrames(_, _)
\* the rows of pd.concat(frames, ignore_index=True) over the union of the columns
ConcatFrames(frames, columns) ==
    IF frames = <<>> THEN <<>>
    ELSE [k \in 1..Len(Head(frames).rows) |->
            Widen(Head(frames).rows[k], Head(frames).columns, columns)]
         \o ConcatFrames(Tail(frames), columns)

RECURSIVE Gathered(_, _, _)
\* the list save_all_results gathers for a result table, lines 437-456, over
\* the families order[1..n] in the order they were run
Gathered(table, results, order) ==
    IF order = <<>> THEN <<>>
    ELSE LET r == results[order[Len(order)]]
             before == Gathered(table, results, SubSeq(order, 1, Len(order) - 1))
         IN  IF r = None THEN before
             ELSE CASE table = "ml_predictions_python" ->
                         before
                         \o (IF Len(r.expanding_predictions.rows) > 0
                             THEN <<r.expanding_predictions>> ELSE <<>>)
                         \o (IF Len(r.final_predictions.rows) > 0
                             THEN <<r.final_predictions>> ELSE <<>>)
                    [] table = "ml_model_comparison" ->
                         before \o (IF Len(r.metrics) > 0 THEN <<r.metrics>> ELSE <<>>)
                    [] table = "ml_feature_importance" ->
                         before \o (IF Len(r.importance) > 0 THEN <<r.importance>> ELSE <<>>)
                    [] table = "ml_accuracy_by_week" ->
                         before \o <<r.breakdowns["weekly"]>>
                    [] table = "ml_accuracy_by_customer" ->
                         before \o (IF "sub_customer_name" \in DOMAIN r.breakdowns
                                    THEN <<r.breakdowns["sub_customer_name"]>> ELSE <<>>)
                    [] table = "ml_accuracy_by_variety" ->
                         before \o (IF "variety_name" \in DOMAIN r.breakdowns
                                    THEN <<r.breakdowns["variety_name"]>> ELSE <<>>)

\* pd.concat(list, ignore_index=True) of the list gathered for a table
Combined(table, list) ==
    IF table = "ml_predictions_python"
    THEN ConcatFrames(list, UNION {list[k].columns : k \in 1..Len(list)})
    ELSE Flatten(list)

\* a table write of save_all_results that succeeds, or is skipped for an
\* empty list
SaveWrite ==
    /\ pc = "save"
    /\ save_i < Len(ResultTables)
    /\ \E list \in {Gathered(ResultTables[save_i + 1], all_results, models_to_run)} :
         IF list # <<>>
         THEN sink' = [sink EXCEPT ![ResultTables[save_i + 1]] =
                                      Combined(ResultTables[save_i + 1], list)]
         ELSE UNCHANGED sink
    /\ save_i' = save_i + 1
    /\ UNCHANGED etl_vars
    /\ UNCHANGED <<entry, pc, error, warehouse, xgboost, lightgbm, args, models_to_run,
                   run_i, all_results, model_name, min_train_weeks, df, weeks, wf_i,
                   all_predictions, fits, expanding_predictions, final, breakdowns, sink0,
                   loaded>>

\* a table write whose load job fails: job.result() raises, the table keeps
\* its contents
SaveFail ==
    /\ pc = "save"
    /\ save_i < Len(ResultTables)
    /\ Gathered(ResultTables[save_i + 1], all_results, models_to_run) # <<>>
    /\ pc' = "raised"
    /\ error' = "WriteError"
    /\ UNCHANGED etl_vars
    /\ UNCHANGED <<entry, warehouse, xgboost, lightgbm, args, models_to_run, run_i,
                   all_results, model_name, min_train_weeks, df, weeks, wf_i,
                   all_predictions, fits, expanding_predictions, final, breakdowns, sink,
                   sink0, save_i, loaded>>

\* lines 477 and 521-523
SaveDone ==
    /\ pc = "save"
    /\ save_i = Len(ResultTables)
    /\ pc' = "done"
    /\ UNCHANGED etl_vars
    /\ UNCHANGED <<entry, error, warehouse, xgboost, lightgbm, args, models_to_run, run_i,
                   all_results, model_name, min_train_weeks, df, weeks, wf_i,
                   all_predictions, fits, expanding_predictions, final, breakdowns, sink,
                   sink0, save_i, loaded>>

----------------------------------------------------------------------------
(* train_expanding_window called on its own *)

\* the families given each variant of the table
VariantsOf(name) ==
    {"plain"} \cup (IF name = "demand" THEN {"reversed"} ELSE {})
              \cup (IF name = "dispatch" THEN {"no_features"} ELSE {})
              \cup (IF name = "rejection" THEN {"no_target"} ELSE {})

WFInputs ==
    {[id |-> [name |-> n, variant |-> v, plan |-> p], m |-> m] :
        n \in Range(Families), v \in Variants, p \in Plans, m \in 0..MaxMinTrainWeeks}
    \cup {[id |-> [name |-> "demand", variant |-> "plain", plan |-> p],
           m |-> DefaultMinTrainWeeks] : p \in ScenarioPlans}
    \cup {[id |-> [name |-> "production", variant |-> "plain", plan |-> p], m |-> m] :
           p \in VoidWeekPlans, m \in 0..MaxMinTrainWeeks}

InitWF ==
    \E in \in WFInputs :
        /\ in.id.variant \in VariantsOf(in.id.name)
        /\ entry = "train_expanding_window"
        /\ pc = "wf_start"
        /\ error = "none"
        /\ warehouse = NoTables
        /\ xgboost = FALSE
        /\ lightgbm = FALSE
        /\ args = {}
        /\ models_to_run = <<>>
        /\ run_i = 0
        /\ all_results = <<>>
        /\ model_name = in.id.name
        /\ min_train_weeks = in.m
        /\ df = TableOf(in.id)
        /\ weeks = <<>>
        /\ wf_i = 0
        /\ all_predictions = <<>>
        /\ fits = <<>>
        /\ expanding_predictions = None
        /\ final = None
        /\ breakdowns = None
        /\ sink = EmptySink
        /\ sink0 = EmptySink
        /\ save_i = 0
        /\ loaded = {}
        /\ EtlIdle

NextWF == WFStart \/ WFStep \/ WFFinish

SpecWF == InitWF /\ [][NextWF]_vars

----------------------------------------------------------------------------
(* train_final_model called on its own *)

MaxFinalWeeks == 2

\* tables whose 80/20 split falls inside a week and between differing targets
SplitPlans == {<<"mixed", "big", "one">>}

FinalInputs ==
    {[name |-> n, variant |-> v, plan |-> p] :
        n \in Range(Families), v \in Variants,
        p \in UNION {[1..k -> BlockKinds] : k \in 0..MaxFinalWeeks} \cup SplitPlans}

InitFinal ==
    \E id \in FinalInputs :
        /\ id.variant \in VariantsOf(id.name)
        /\ entry = "train_final_model"
        /\ pc = "final"
        /\ error = "none"
        /\ warehouse = NoTables
        /\ xgboost \in BOOLEAN
        /\ lightgbm \in BOOLEAN
        /\ args = {}
        /\ models_to_run = <<>>
        /\ run_i = 0
        /\ all_results = <<>>
        /\ model_name = id.name
        /\ min_train_weeks = DefaultMinTrainWeeks
        /\ df = TableOf(id)
        /\ weeks = <<>>
        /\ wf_i = 0
        /\ all_predictions = <<>>
        /\ fits = <<>>
        /\ expanding_predictions = None
        /\ final = None
        /\ breakdowns = None
        /\ sink = EmptySink
        /\ sink0 = EmptySink
        /\ save_i = 0
        /\ loaded = {}
        /\ EtlIdle

NextFinal == TrainFinal

SpecFinal == InitFinal /\ [][NextFinal]_vars

----------------------------------------------------------------------------
(* main *)

\* the tables a family may have in the warehouse
MainTables(name) ==
    {Absent}
    \cup (IF name = "demand"
          THEN {[name |-> name, variant |-> "plain", plan |-> p] :
                  p \in ScenarioPlans \cup {<<"one", "one">>}}
          ELSE {})
    \cup (IF name = "dispatch"
          THEN {[name |-> name, variant |-> "no_features", plan |-> <<"one", "one">>],
                [name |-> name, variant |-> "no_features",
                 plan |-> [k \in 1..ScenarioWeeks |-> "nine"]],
                [name |-> name, variant |-> "plain", plan |-> <<>>]}
          ELSE {})
    \cup (IF name = "production"
          THEN {[name |-> name, variant |-> "plain", plan |-> <<"mixed">>],
                [name |-> name, variant |-> "plain",
                 plan |-> <<"big", "big", "mixed", "one">>]}
          ELSE {})
    \cup (IF name = "rejection"
          THEN {[name |-> name, variant |-> "no_target", plan |-> <<"one", "one">>],
                [name |-> name, variant |-> "plain", plan |-> <<"one", "one">>]}
          ELSE {})

\* rows an earlier run left in a result table
PriorRows == <<[model_type |-> "demand", year |-> FirstYear - 1, week_number |-> 1]>>

PriorSink == [t \in Range(ResultTables) |-> PriorRows]

\* the command lines given: any set of family flags, or --all
ArgSets == SUBSET (Flags \ {"all"}) \cup {{"all"}}

Init ==
    /\ entry = "main"
    /\ pc = "main"
    /\ error = "none"
    /\ args \in ArgSets
    /\ warehouse \in [Range(Families) -> UNION {MainTables(f) : f \in Range(Families)}]
    /\ \A f \in Range(Families) :
         /\ warehouse[f] \in MainTables(f)
         /\ f \notin Range(ModelsToRun(args)) => warehouse[f] = Absent
    /\ xgboost = FALSE
    /\ lightgbm \in BOOLEAN
    /\ sink0 \in {EmptySink, PriorSink}
    /\ sink = sink0
    /\ models_to_run = <<>>
    /\ run_i = 0
    /\ all_results = <<>>
    /\ model_name = "none"
    /\ min_train_weeks = DefaultMinTrainWeeks
    /\ df = EmptyFrame
    /\ weeks = <<>>
    /\ wf_i = 0
    /\ all_predictions = <<>>
    /\ fits = <<>>
    /\ expanding_predictions = None
    /\ final = None
    /\ breakdowns = None
    /\ save_i = 0
    /\ loaded = {}
    /\ EtlIdle

Next ==
    \/ MainStart
    \/ RunCheck
    \/ Load
    \/ WFStart
    \/ WFStep
    \/ WFFinish
    \/ TrainFinal
    \/ BreakdownsStep
    \/ RunDone
    \/ SaveWrite
    \/ SaveFail
    \/ SaveDone

Spec == Init /\ [][Next]_vars

----------------------------------------------------------------------------
(* Properties of train_expanding_window *)

\* year*100 + week_number of a row
WeekKey(r) == r["year"] * 100 + r["week_number"]

\* the rows of all emitted pred_df
Emitted == Flatten(all_predictions)

\* the weeks a prediction row was emitted for
EmittedWeeks == {WeekKey(Emitted[k]) : k \in 1..Len(Emitted)}

\* the rows of the table with no NaN in the target or an available feature
CleanRows ==
    IF MODEL_CONFIGS[model_name].target \in df.columns
    THEN DropNa(df.rows, <<MODEL_CONFIGS[model_name].target>> \o AvailableFeatures(df, model_name))
    ELSE <<>>

\* the number of elements of rows whose week key is below key
CountBefore(rows, key) == Cardinality({k \in 1..Len(rows) : WeekKey(rows[k]) < key})

\* the rows of week key with no NaN in an available feature
HasCleanTest(key) ==
    \E k \in 1..Len(df.rows) :
        /\ WeekKey(df.rows[k]) = key
        /\ \A f \in Range(AvailableFeatures(df, model_name)) : ~IsNa(df.rows[k][f])

InLoop == pc \in {"wf_loop", "returned"} /\ entry = "train_expanding_window"

\* C1: every fit of the walk-forward loop is made on rows whose composite week
\* key is strictly below the target week of the prediction rows it yields: no
\* row of the target week or of a later week is in the training set.
C1_LeakageGuard ==
    /\ Len(fits) = Len(all_predictions)
    /\ \A k \in 1..Len(fits) :
         /\ \A key \in fits[k].train_keys : key < fits[k].target_week
         /\ \A j \in 1..Len(all_predictions[k]) :
              WeekKey(all_predictions[k][j]) = fits[k].target_week

C1_Witness ==
    /\ pc = "returned"
    /\ \E k \in 1..Len(fits) : Cardinality(fits[k].train_keys) >= 2

\* the table has the same number of rows for every week, no NaN and the
\* constant target
UniformTable ==
    /\ Len(weeks) > 0
    /\ MODEL_CONFIGS[model_name].target \in df.columns
    /\ \A k \in 1..Len(df.rows) :
         /\ df.rows[k][MODEL_CONFIGS[model_name].target] = <<TargetValue>>
         /\ \A f \in Range(AvailableFeatures(df, model_name)) : ~IsNa(df.rows[k][f])
    /\ \A w \in Range(weeks) :
         Cardinality({k \in 1..Len(df.rows) : df.rows[k]["year_week"] = w}) * Len(weeks)
           = Len(df.rows)

RowsPerWeek == Len(df.rows) \div Len(weeks)

\* one prediction row with actual = 100 for each row of the weeks W[m..]
OnePerRowFromWarmUp ==
    /\ Len(expanding_predictions.rows) = RowsPerWeek * (Len(weeks) - min_train_weeks)
    /\ EmittedWeeks = Range(SubSeq(weeks, min_train_weeks + 1, Len(weeks)))
    /\ \A k \in 1..Len(expanding_predictions.rows) :
         expanding_predictions.rows[k]["actual"] = <<TargetValue>>

Scenario ==
    /\ entry = "train_expanding_window"
    /\ pc = "returned"
    /\ min_train_weeks = DefaultMinTrainWeeks
    /\ Len(weeks) = ScenarioWeeks
    /\ UniformTable

\* C2 as stated: 20 weeks of one row each, constant target, m = 12 give one
\* prediction row with actual = 100 for each of W[12]..W[19].
C2_Original == (Scenario /\ RowsPerWeek = 1) => OnePerRowFromWarmUp

\* C2 as amended: the table of one row per week yields no prediction row,
\* its training sets staying under the floor of 100 rows; the rows of
\* W[12]..W[19] are predicted, each with actual = 100, when the weeks
\* W[0..11] hold at least 100 rows.
C2_Amended ==
    Scenario =>
        /\ (Len(weeks) - 1) * RowsPerWeek < MinTrainRows
             => expanding_predictions = EmptyFrame
        /\ DefaultMinTrainWeeks * RowsPerWeek >= MinTrainRows => OnePerRowFromWarmUp

C2_Witness == Scenario /\ RowsPerWeek = 1 /\ expanding_predictions = EmptyFrame

\* C3: a target week whose cleaned training rows number fewer than 100 gets
\* no prediction row, the run does not fail on it, and the later weeks with
\* enough training rows are still predicted.
C3_RowCountFloor ==
    (InLoop /\ MODEL_CONFIGS[model_name].target \in df.columns) =>
        \A clean \in {CleanRows} :
            \A i \in min_train_weeks..(Len(weeks) - 1) :
                /\ (i < wf_i /\ CountBefore(clean, weeks[i + 1]) < MinTrainRows)
                     => weeks[i + 1] \notin EmittedWeeks
                /\ (i < wf_i /\ CountBefore(clean, weeks[i + 1]) >= MinTrainRows
                      /\ HasCleanTest(weeks[i + 1]))
                     => weeks[i + 1] \in EmittedWeeks
                /\ pc = "returned" => i < wf_i

C3_Witness ==
    /\ InLoop
    /\ pc = "returned"
    /\ \E i \in min_train_weeks..(Len(weeks) - 1) :
         /\ CountBefore(CleanRows, weeks[i + 1]) < MinTrainRows
         /\ \E j \in (i + 1)..(Len(weeks) - 1) : weeks[j + 1] \in EmittedWeeks

\* C4: no prediction row is emitted for any of the first m weeks W[0..m-1].
C4_WarmUpFloor ==
    InLoop =>
        \A k \in 1..Len(Emitted) :
            \A i \in 1..min_train_weeks :
                i <= Len(weeks) => WeekKey(Emitted[k]) # weeks[i]

C4_Witness ==
    /\ InLoop
    /\ pc = "returned"
    /\ min_train_weeks >= 2
    /\ Len(Emitted) > 0
    /\ CountBefore(CleanRows, weeks[min_train_weeks]) >= MinTrainRows

\* no week from W[m] on can be predicted: there are fewer than m+1 weeks, or
\* every candidate week has no rows or fewer than 100 cleaned training rows
NoCandidateWeek ==
    \/ Len(weeks) <= min_train_weeks
    \/ /\ MODEL_CONFIGS[model_name].target \in df.columns
       /\ \A clean \in {CleanRows} :
            \A i \in min_train_weeks..(Len(weeks) - 1) :
                \/ CountBefore(clean, weeks[i + 1]) < MinTrainRows
                \/ \A k \in 1..Len(df.rows) : WeekKey(df.rows[k]) # weeks[i + 1]

\* C5: when the table has fewer than m+1 weeks, or every candidate week is
\* skipped for having no rows or too few training rows, the walk-forward loop
\* emits nothing and raises nothing, train_expanding_window returns an empty
\* table, and run_model_pipeline goes on to train_final_model.
C5_EmptyHistory ==
    [][(entry = "main" /\ pc = "wf_loop" /\ NoCandidateWeek) =>
         /\ error' = "none"
         /\ all_predictions' = <<>>
         /\ pc' # "wf_loop" => (pc' = "final" /\ Len(expanding_predictions'.rows) = 0)]_vars

C5_Witness ==
    /\ entry = "main"
    /\ pc = "final"
    /\ Len(weeks) > min_train_weeks
    /\ NoCandidateWeek
    /\ expanding_predictions = EmptyFrame

----------------------------------------------------------------------------
(* Properties of main *)

\* the family's table is in the warehouse without its target column
LacksTarget(f) ==
    /\ warehouse[f] # Absent
    /\ MODEL_CONFIGS[f].target \notin ColumnsOf(warehouse[f].name, warehouse[f].variant)

\* the rows of the family's metrics are in the model comparison table
MetricsSaved(g) ==
    \A k \in 1..Len(all_results[g].metrics) :
        all_results[g].metrics[k] \in Range(sink["ml_model_comparison"])

\* C6: a missing target column is fatal for that family only: the other
\* selected families are still run and their results reach the sink.
C6_SiblingsSurvive ==
    (/\ entry = "main"
     /\ pc \in {"done", "raised"}
     /\ error \in {"none", "ValueError: target column not found"}) =>
        \A f \in Range(models_to_run) :
            LacksTarget(f) =>
                \A g \in Range(models_to_run) \ {f} :
                    /\ g \in DOMAIN all_results
                    /\ all_results[g] # None => MetricsSaved(g)

\* the selected families whose feature table is missing
Skipped == {f \in Range(models_to_run) : warehouse[f] = Absent}

\* C7: a family whose feature table is missing gets None without its table
\* being loaded or a model trained, the run is not aborted by it, every
\* selected family is still run, and the tables save_all_results writes hold
\* the other families' results and no row of the skipped family.
C7_MissingTableSkipped ==
    entry = "main" =>
        /\ \A f \in DOMAIN all_results :
             warehouse[f] = Absent => (all_results[f] = None /\ f \notin loaded)
        /\ pc = "raised" => (error = "WriteError" \/ warehouse[model_name] # Absent)
        /\ pc \in {"save", "done"} => Range(models_to_run) = DOMAIN all_results
        /\ pc = "done" =>
             /\ \A g \in DOMAIN all_results : all_results[g] # None => MetricsSaved(g)
             /\ \A t \in Range(ResultTables) :
                  \A list \in {Gathered(t, all_results, models_to_run)} :
                      list # <<>> =>
                          /\ sink[t] = Combined(t, list)
                          /\ \A k \in 1..Len(sink[t]) :
                               sink[t][k]["model_type"] \notin Skipped

C7_Witness ==
    /\ entry = "main"
    /\ pc = "done"
    /\ \E i \in 1..Len(models_to_run) :
         /\ models_to_run[i] \in Skipped
         /\ \E j \in (i + 1)..Len(models_to_run) :
              /\ all_results[models_to_run[j]] # None
              /\ MetricsSaved(models_to_run[j])

\* C8: after a run of main that completes, every result table holds exactly
\* the rows this run computed for it, also when it computed none.
C8_FullReplacement ==
    (entry = "main" /\ pc = "done") =>
        \A t \in Range(ResultTables) :
            sink[t] = Combined(t, Gathered(t, all_results, models_to_run))

\* C9: after a table write of save_all_results has failed, no output of the
\* run is visible: every result table holds what it held before the run.
C9_NoPartialOutput ==
    (entry = "main" /\ pc = "raised" /\ error = "WriteError") => sink = sink0

----------------------------------------------------------------------------
(* Properties of train_final_model *)

\* the actual values of the held-out rows
HeldOutActuals ==
    LET clean == PrepareData(df, model_name).clean
    IN  Column(SubSeq(clean, NTrain(Len(clean)) + 1, Len(clean)),
               MODEL_CONFIGS[model_name].target)

\* train_final_model was given a table whose held-out actuals are all zero
HeldOutAllZero ==
    /\ MODEL_CONFIGS[model_name].target \in df.columns
    /\ NTrain(Len(PrepareData(df, model_name).clean)) > 0
    /\ \A y \in Range(HeldOutActuals) : y = <<0>>

\* C10: on a held-out set whose actuals are all zero train_final_model
\* computes a finite non-negative WMAPE for each algorithm, selects a winner
\* and returns its metrics and predictions.
C10_ZeroActualsSafe ==
    (entry = "train_final_model" /\ pc \in {"returned", "raised"} /\ HeldOutAllZero) =>
        /\ pc = "returned"
        /\ final # None
        /\ final.best # 0
        /\ \A k \in 1..Len(final.metrics) :
             /\ final.metrics[k].wmape.kind = "finite"
             /\ final.metrics[k].wmape.num >= 0

\* train_final_model fitted and scored every algorithm of the roster
RosterScored == entry = "train_final_model" /\ final # None

\* C11: train_final_model selects the algorithm with the minimum held-out
\* WMAPE, the first in roster order among those that share the minimum, and
\* tags the holdout predictions with that algorithm's name.
C11_SelectionRule ==
    RosterScored =>
        /\ pc = "returned"
        /\ final.best \in 1..Len(final.metrics)
        /\ \A a \in 1..Len(final.metrics) :
             ~Less(final.metrics[a].wmape, final.metrics[final.best].wmape)
        /\ \A a \in 1..(final.best - 1) :
             Less(final.metrics[final.best].wmape, final.metrics[a].wmape)
        /\ \A k \in 1..Len(final.predictions) :
             final.predictions[k]["algorithm"] = final.metrics[final.best].algorithm

----------------------------------------------------------------------------
(* Further properties of main *)

\* the rows of the rollup are the contents of part of a result table
RollupSaved(rollup) ==
    \E t \in Range(ResultTables) :
        /\ Len(rollup) > 0
        /\ \A k \in 1..Len(rollup) : rollup[k] \in Range(sink[t])

\* C12: after a run of main that completes, for every family that ran and
\* every grouping dimension declared for it, the rollup that
\* calculate_accuracy_breakdowns computed for the dimension is in a sink table.
C12_EveryDimensionSaved ==
    (entry = "main" /\ pc = "done") =>
        \A f \in DOMAIN all_results :
            all_results[f] # None =>
                \A col \in Range(MODEL_CONFIGS[f].group_cols) :
                    /\ col \in DOMAIN all_results[f].breakdowns
                    /\ RollupSaved(all_results[f].breakdowns[col])

\* C13: invoked with none of --all, --demand, --dispatch, --production,
\* --rejection, main prints usage and returns normally: no feature table is
\* checked, read or trained on and no table of the sink is written.
C13_NoSelectionNoOp ==
    (entry = "main" /\ args = {}) =>
        /\ pc \in {"main", "usage"}
        /\ error = "none"
        /\ model_name = "none"
        /\ loaded = {}
        /\ all_results = <<>>
        /\ fits = <<>>
        /\ final = None
        /\ sink = sink0

C13_Witness ==
    /\ entry = "main"
    /\ args = {}
    /\ pc = "usage"
    /\ sink = PriorSink

\* the position of a feature in the family's declared list
DeclaredIndex(name, f) ==
    CHOOSE i \in 1..Len(MODEL_CONFIGS[name].features) : MODEL_CONFIGS[name].features[i] = f

\* list holds exactly the declared features that are columns of the loaded
\* table, each once, in declared order
DeclaredAndPresent(list) ==
    /\ Range(list) = Range(MODEL_CONFIGS[model_name].features) \cap df.columns
    /\ \A i, j \in 1..Len(list) :
         i < j => DeclaredIndex(model_name, list[i]) < DeclaredIndex(model_name, list[j])

\* a family is being run on a table that has the target column and some, not
\* all, of the declared feature columns
LacksSomeFeatures ==
    /\ entry = "main"
    /\ \/ pc \in {"wf_start", "wf_loop", "final", "breakdowns"}
       \/ pc = "raised" /\ error # "WriteError"
    /\ MODEL_CONFIGS[model_name].target \in df.columns
    /\ Range(MODEL_CONFIGS[model_name].features) \cap df.columns # {}
    /\ Range(MODEL_CONFIGS[model_name].features) \ df.columns # {}

\* C14: on a table that lacks some declared feature columns but has the target
\* column, train_expanding_window and prepare_data do not fail, every fit uses
\* exactly the declared features present in the table, in declared order, and
\* prepare_data returns that list as the feature names.
C14_MissingFeatureTolerance ==
    LacksSomeFeatures =>
        /\ pc # "raised"
        /\ \A k \in 1..Len(fits) : DeclaredAndPresent(fits[k].features)
        /\ pc = "breakdowns" => DeclaredAndPresent(final.feature_names)

C14_Witness ==
    /\ LacksSomeFeatures
    /\ pc = "breakdowns"
    /\ Len(fits) > 0
    /\ Len(final.feature_names) = Len(MODEL_CONFIGS[model_name].features) - 2
    /\ Len(final.predictions) > 0

----------------------------------------------------------------------------
(* Recruitment ETL: values.  The columns internal_job_id and absolute_url   *)
(* are copied through unchanged and are left out.                          *)

\* SQL NULL and Python None in a nullable column, whose values are <<v>>
Null == <<>>

\* the text "Unknown"
Unknown == <<"U", "n", "k", "n", "o", "w", "n">>

\* the company_name of every row inserted from the API
OfferZen == <<"O", "f", "f", "e", "r", "Z", "e", "n">>

\* str.strip() of leading whitespace
RECURSIVE LStrip(_)
LStrip(t) == IF t # <<>> /\ Head(t) = " " THEN LStrip(Tail(t)) ELSE t

\* str.strip()
Strip(t) == Reverse(LStrip(Reverse(LStrip(t))))

UpperChar(c) == IF c = "a" THEN "A" ELSE c

LowerChar(c) == IF c = "A" THEN "a" ELSE c

\* str.title(): a letter that follows a non-letter is upper case, any other
\* letter lower case
TitleCase(t) ==
    [k \in 1..Len(t) |->
        IF k = 1 \/ t[k - 1] = " " THEN UpperChar(t[k]) ELSE LowerChar(t[k])]

\* a department cleaned to None instead of "Unknown"
CleanDepartmentNone(dept) ==
    IF dept = Null \/ dept[1] = <<>> \/ Strip(dept[1]) = <<>> THEN Null
    ELSE <<TitleCase(Strip(dept[1]))>>

\* clean_department
CleanDepartment(dept) ==
    IF dept = Null \/ dept[1] = <<>> \/ Strip(dept[1]) = <<>> THEN <<Unknown>>
    ELSE <<TitleCase(Strip(dept[1]))>>

\* clean_location
CleanLocation(loc) ==
    IF loc = Null \/ loc[1] = <<>> \/ Strip(loc[1]) = <<>> THEN <<Unknown>>
    ELSE <<TitleCase(Strip(loc[1]))>>

IsLeapYear(y) == y % 4 = 0 /\ (y % 100 # 0 \/ y % 400 = 0)

DaysInMonth(y, m) ==
    CASE m \in {4, 6, 9, 11} -> 30
      [] m = 2 -> IF IsLeapYear(y) THEN 29 ELSE 28
      [] OTHER -> 31

\* the number of days from 0000-03-01 to the date [y, m, d]
DayNumber(date) ==
    LET y == IF date.m <= 2 THEN date.y - 1 ELSE date.y
        mp == (date.m + 9) % 12
    IN  365 * y + y \div 4 - y \div 100 + y \div 400 + (153 * mp + 2) \div 5 + date.d - 1

\* a date text of the bronze layer is [format, y, m, d] with format "iso" for
\* YYYY-MM-DD, "us" for MM/DD/YYYY and "dmy" for DD.MM.YYYY, or
\* [format |-> "blank"] for a text of whitespace
ValidDate(v) == v.m \in 1..12 /\ v.d \in 1..DaysInMonth(v.y, v.m)

\* the text is parsed by datetime.strptime, which raises ValueError
ParseDateRaises(val) ==
    /\ val # Null
    /\ val[1].format \in {"iso", "us"}
    /\ ~ValidDate(val[1])

\* parse_date, for a text that strptime accepts
ParseDate(val) ==
    IF val = Null THEN Null
    ELSE IF val[1].format \in {"iso", "us"}
    THEN <<[y |-> val[1].y, m |-> val[1].m, d |-> val[1].d]>>
    ELSE Null

----------------------------------------------------------------------------
(* transform_silver.py *)

\* INSERT INTO silver.jobs ... ON CONFLICT (job_id) DO NOTHING, lines 61-82
InsertHistory(table, r) ==
    IF \E k \in 1..Len(table) : table[k].job_id = r.job_id
    THEN table
    ELSE Append(table,
                [job_id |-> r.job_id,
                 title |-> Strip(r.title),
                 department |-> CleanDepartment(r.department),
                 location |-> CleanLocation(r.location),
                 company_name |-> r.company_name,
                 open_date |-> ParseDate(r.open_date),
                 close_date |-> ParseDate(r.close_date),
                 source |-> "history"])

\* dept_name = depts[0]["name"] if depts else None
DeptName(depts) == IF depts # <<>> THEN depts[1].name ELSE Null

\* the upsert replacing every column of the conflicting row
UpsertApiWholeRow(table, r) ==
    LET row == [job_id |-> r.id,
                title |-> Strip(r.title),
                department |-> CleanDepartment(DeptName(r.departments)),
                location |-> CleanLocation(r.location_name),
                company_name |-> <<OfferZen>>,
                open_date |-> r.updated_at,
                close_date |-> Null,
                source |-> "api"]
    IN  IF \E k \in 1..Len(table) : table[k].job_id = r.id
        THEN [k \in 1..Len(table) |-> IF table[k].job_id = r.id THEN row ELSE table[k]]
        ELSE Append(table, row)

\* INSERT INTO silver.jobs ... ON CONFLICT (job_id) DO UPDATE SET title,
\* department, location, source, lines 92-117
UpsertApi(table, r) ==
    IF \E k \in 1..Len(table) : table[k].job_id = r.id
    THEN [k \in 1..Len(table) |->
            IF table[k].job_id = r.id
            THEN [table[k] EXCEPT !.title = Strip(r.title),
                                  !.department = CleanDepartment(DeptName(r.departments)),
                                  !.location = CleanLocation(r.location_name),
                                  !.source = "api"]
            ELSE table[k]]
    ELSE Append(table,
                [job_id |-> r.id,
                 title |-> Strip(r.title),
                 department |-> CleanDepartment(DeptName(r.departments)),
                 location |-> CleanLocation(r.location_name),
                 company_name |-> <<OfferZen>>,
                 open_date |-> r.updated_at,
                 close_date |-> Null,
                 source |-> "api"])

RECURSIVE LoadHistory(_, _)
\* the loop of lines 59-82 over the first n rows fetched
LoadHistory(rows, n) ==
    IF n = 0 THEN <<>> ELSE InsertHistory(LoadHistory(rows, n - 1), rows[n])

RECURSIVE LoadApi(_, _, _)
\* the loop of lines 87-117 over the first n rows fetched
LoadApi(table, rows, n) ==
    IF n = 0 THEN table ELSE UpsertApi(LoadApi(table, rows, n - 1), rows[n])

\* transform(cur) and the commit or rollback of main
TransformSilver ==
    /\ etl_pc = "silver"
    /\ IF \E k \in 1..Len(raw_jobs_history) :
             \/ ParseDateRaises(raw_jobs_history[k].open_date)
             \/ ParseDateRaises(raw_jobs_history[k].close_date)
       THEN \* strptime raises, main rolls the TRUNCATE and the inserts back
            /\ etl_pc' = "raised"
            /\ etl_error' = "ValueError"
            /\ UNCHANGED jobs
       ELSE /\ jobs' = LoadApi(LoadHistory(raw_jobs_history, Len(raw_jobs_history)),
                               raw_jobs_api, Len(raw_jobs_api))
            /\ etl_pc' = "dim_department"
            /\ UNCHANGED etl_error
    /\ UNCHANGED <<etl_entry, raw_jobs_history, raw_jobs_api, dim_department,
                   dim_location, dim_date, fact_jobs>>
    /\ UNCHANGED pipeline_vars

----------------------------------------------------------------------------
(* transform_gold.py *)

\* the code point of a character
CharCode(c) ==
    CASE c = " " -> 32 [] c = "A" -> 65 [] c = "U" -> 85 [] c = "Z" -> 90 [] c = "a" -> 97
      [] c = "k" -> 107 [] c = "n" -> 110 [] c = "o" -> 111 [] c = "w" -> 119

RECURSIVE TextLess(_, _)
\* a < b in the order of ORDER BY, taken by code point
TextLess(a, b) ==
    IF b = <<>> THEN FALSE
    ELSE IF a = <<>> THEN TRUE
    ELSE IF Head(a) # Head(b) THEN CharCode(Head(a)) < CharCode(Head(b))
    ELSE TextLess(Tail(a), Tail(b))

RECURSIVE SortedTexts(_)
SortedTexts(S) ==
    IF S = {} THEN <<>>
    ELSE LET least == CHOOSE t \in S : \A u \in S \ {t} : TextLess(t, u)
         IN  <<least>> \o SortedTexts(S \ {least})

\* SELECT DISTINCT col FROM silver.jobs WHERE col IS NOT NULL ORDER BY col
DistinctNotNull(table, col) ==
    SortedTexts({table[k][col][1] : k \in {i \in 1..Len(table) : table[i][col] # Null}})

\* the key the database gives to the k-th row inserted into a dimension
SerialKey(k) == k

\* build_dim_department: the rows of gold.dim_department
DimDepartmentRows(table) ==
    LET names == DistinctNotNull(table, "department")
    IN  [k \in 1..Len(names) |-> [department_key |-> SerialKey(k), department_name |-> names[k]]]

\* build_dim_location: the rows of gold.dim_location
DimLocationRows(table) ==
    LET names == DistinctNotNull(table, "location")
    IN  [k \in 1..Len(names) |-> [location_key |-> SerialKey(k), location_name |-> names[k]]]

\* the date [y, m, d] that is z days after 0000-03-01
CivilFromDays(z) ==
    LET era == z \div 146097
        doe == z - era * 146097
        yoe == (doe - doe \div 1460 + doe \div 36524 - doe \div 146096) \div 365
        doy == doe - (365 * yoe + yoe \div 4 - yoe \div 100)
        mp  == (5 * doy + 2) \div 153
        m   == IF mp < 10 THEN mp + 3 ELSE mp - 9
    IN  [y |-> yoe + era * 400 + (IF m <= 2 THEN 1 ELSE 0),
         m |-> m,
         d |-> doy - (153 * mp + 2) \div 5 + 1]

\* start = date(2015, 1, 1)
SpineStart == [y |-> 2015, m |-> 1, d |-> 1]

\* end = date(2026, 12, 31)
SpineEnd == [y |-> 2026, m |-> 12, d |-> 31]

\* build_dim_date: the rows of gold.dim_date, one for each day d of the loop
\* of lines 56-76
DimDateRows ==
    [k \in 1..(DayNumber(SpineEnd) - DayNumber(SpineStart) + 1) |->
        LET day == CivilFromDays(DayNumber(SpineStart) + k - 1)
        IN  [date_key |-> day.y * 10000 + day.m * 100 + day.d, full_date |-> day]]

\* the join made an inner join: no row for a job without a match
JoinKeysInner(dim, col, keycol, v) ==
    LET matches == IF v = Null THEN <<>> ELSE SelectSeq(dim, LAMBDA r : r[col] = v[1])
    IN  [k \in 1..Len(matches) |-> <<matches[k][keycol]>>]

\* the keys of the rows of dim that a LEFT JOIN ... ON dim.col = v yields for
\* one job: those of the matching rows, or one NULL when no row matches
JoinKeys(dim, col, keycol, v) ==
    LET matches == IF v = Null THEN <<>> ELSE SelectSeq(dim, LAMBDA r : r[col] = v[1])
    IN  IF matches = <<>> THEN <<Null>>
        ELSE [k \in 1..Len(matches) |-> <<matches[k][keycol]>>]

\* CASE WHEN j.close_date IS NOT NULL THEN j.close_date - j.open_date ELSE NULL END
DaysToFill(j) ==
    IF j.close_date # Null
    THEN IF j.open_date = Null THEN Null
         ELSE <<DayNumber(j.close_date[1]) - DayNumber(j.open_date[1])>>
    ELSE Null

\* the rows the SELECT of lines 88-107 yields for the job j
FactRowsOf(j, departments, locations, dates) ==
    LET d  == JoinKeys(departments, "department_name", "department_key", j.department)
        l  == JoinKeys(locations, "location_name", "location_key", j.location)
        od == JoinKeys(dates, "full_date", "date_key", j.open_date)
        cd == JoinKeys(dates, "full_date", "date_key", j.close_date)
        n  == Len(d) * Len(l) * Len(od) * Len(cd)
    IN  [i \in 1..n |->
           [job_id |-> j.job_id,
            title |-> j.title,
            department_key |-> d[((i - 1) \div (Len(l) * Len(od) * Len(cd))) + 1],
            location_key |-> l[(((i - 1) \div (Len(od) * Len(cd))) % Len(l)) + 1],
            open_date_key |-> od[(((i - 1) \div Len(cd)) % Len(od)) + 1],
            close_date_key |-> cd[((i - 1) % Len(cd)) + 1],
            is_open |-> j.close_date = Null,
            days_to_fill |-> DaysToFill(j),
            source |-> j.source]]

\* build_fact_jobs: the rows of gold.fact_jobs
FactRows(table, departments, locations, dates) ==
    Flatten([k \in 1..Len(table) |-> FactRowsOf(table[k], departments, locations, dates)])

\* build_dim_department
BuildDimDepartment ==
    /\ etl_pc = "dim_department"
    /\ dim_department' = DimDepartmentRows(jobs)
    /\ etl_pc' = "dim_location"
    /\ UNCHANGED <<etl_entry, etl_error, raw_jobs_history, raw_jobs_api, jobs,
                   dim_location, dim_date, fact_jobs>>
    /\ UNCHANGED pipeline_vars

\* build_dim_location
BuildDimLocation ==
    /\ etl_pc = "dim_location"
    /\ dim_location' = DimLocationRows(jobs)
    /\ etl_pc' = "dim_date"
    /\ UNCHANGED <<etl_entry, etl_error, raw_jobs_history, raw_jobs_api, jobs,
                   dim_department, dim_date, fact_jobs>>
    /\ UNCHANGED pipeline_vars

\* build_dim_date
BuildDimDate ==
    /\ etl_pc = "dim_date"
    /\ dim_date' = DimDateRows
    /\ etl_pc' = "fact_jobs"
    /\ UNCHANGED <<etl_entry, etl_error, raw_jobs_history, raw_jobs_api, jobs,
                   dim_department, dim_location, fact_jobs>>
    /\ UNCHANGED pipeline_vars

\* build_fact_jobs and the commit of main
BuildFactJobs ==
    /\ etl_pc = "fact_jobs"
    /\ fact_jobs' = FactRows(jobs, dim_department, dim_location, dim_date)
    /\ etl_pc' = "gold_done"
    /\ UNCHANGED <<etl_entry, etl_error, raw_jobs_history, raw_jobs_api, jobs,
                   dim_department, dim_location, dim_date>>
    /\ UNCHANGED pipeline_vars

----------------------------------------------------------------------------
(* The ETL runs: transform_silver then transform_gold on a bronze layer,   *)
(* or transform_gold alone on given contents of silver.jobs.               *)

MaxHistory == 2
MaxApi == 1

Day(y, m, d) == [y |-> y, m |-> m, d |-> d]

DateText(format, y, m, d) == <<[format |-> format, y |-> y, m |-> m, d |-> d]>>

\* the rows of bronze.raw_jobs_history the runs are given
HistoryRows ==
    {[job_id |-> 1, title |-> <<"a">>, department |-> <<<<"a", "A">>>>,
      location |-> <<<<" ", "a">>>>,
      company_name |-> <<<<"a">>>>,
      open_date |-> DateText("iso", 2020, 3, 1), close_date |-> DateText("iso", 2020, 3, 10)],
     [job_id |-> 2, title |-> <<" ", "a">>, department |-> Null, location |-> <<<<>>>>,
      company_name |-> Null,
      open_date |-> DateText("us", 2020, 3, 1), close_date |-> Null],
     [job_id |-> 1, title |-> <<"A">>, department |-> <<<<"A">>>>, location |-> <<<<"a">>>>,
      company_name |-> <<<<"A">>>>,
      open_date |-> DateText("iso", 2020, 3, 10), close_date |-> DateText("us", 2020, 3, 1)],
     [job_id |-> 2, title |-> <<"a">>, department |-> <<<<"a", " ">>>>, location |-> <<<<"A">>>>,
      company_name |-> <<<<"a">>>>,
      open_date |-> DateText("iso", 2014, 12, 31), close_date |-> DateText("dmy", 2015, 1, 1)],
     [job_id |-> 2, title |-> <<"a">>, department |-> <<<<" ">>>>, location |-> Null,
      company_name |-> <<<<"A">>>>,
      open_date |-> DateText("iso", 2020, 13, 1), close_date |-> <<[format |-> "blank"]>>],
     [job_id |-> 1, title |-> <<"a">>, department |-> <<<<"a">>>>, location |-> <<<<"a">>>>,
      company_name |-> Null,
      open_date |-> Null, close_date |-> DateText("iso", 2020, 3, 10)]}

\* the rows of bronze.raw_jobs_api the runs are given
ApiRows ==
    {[id |-> 1, title |-> <<"A", " ">>, departments |-> <<[name |-> <<<<"a", "a">>>>]>>,
      location_name |-> <<<<"a", " ">>>>, updated_at |-> <<Day(2026, 12, 31)>>],
     [id |-> 3, title |-> <<"a">>, departments |-> <<>>, location_name |-> Null,
      updated_at |-> Null]}

\* contents of silver.jobs that transform_gold alone is run on
GivenJobRows ==
    {[job_id |-> 1, title |-> <<"a">>, department |-> Null, location |-> Null,
      company_name |-> Null, open_date |-> Null, close_date |-> Null, source |-> "history"],
     [job_id |-> 1, title |-> <<"a">>, department |-> <<<<"A">>>>, location |-> <<<<"A">>>>,
      company_name |-> <<OfferZen>>,
      open_date |-> <<Day(2027, 1, 1)>>, close_date |-> <<Day(2026, 12, 31)>>,
      source |-> "history"]}

\* the sequences of at most n elements of S
SeqsUpTo(S, n) == UNION {[1..k -> S] : k \in 0..n}

\* rows left in the tables by an earlier run
PriorJobs ==
    <<[job_id |-> 9, title |-> <<"Z">>, department |-> <<<<"Z">>>>, location |-> <<<<"Z">>>>,
       company_name |-> Null, open_date |-> Null, close_date |-> Null,
       source |-> "history"]>>

PriorDimDepartment == <<[department_key |-> 1, department_name |-> <<"Z">>]>>

PriorDimLocation == <<[location_key |-> 1, location_name |-> <<"Z">>]>>

PriorFactJobs ==
    <<[job_id |-> 9, title |-> <<"Z">>, department_key |-> <<1>>, location_key |-> <<1>>,
       open_date_key |-> Null, close_date_key |-> Null, is_open |-> TRUE,
       days_to_fill |-> Null, source |-> "history"]>>

\* the forecasting pipeline does not run
PipelineIdle ==
    /\ entry = "none"
    /\ pc = "idle"
    /\ error = "none"
    /\ warehouse = NoTables
    /\ xgboost = FALSE
    /\ lightgbm = FALSE
    /\ args = {}
    /\ models_to_run = <<>>
    /\ run_i = 0
    /\ all_results = <<>>
    /\ model_name = "none"
    /\ min_train_weeks = DefaultMinTrainWeeks
    /\ df = EmptyFrame
    /\ weeks = <<>>
    /\ wf_i = 0
    /\ all_predictions = <<>>
    /\ fits = <<>>
    /\ expanding_predictions = None
    /\ final = None
    /\ breakdowns = None
    /\ sink = EmptySink
    /\ sink0 = EmptySink
    /\ save_i = 0
    /\ loaded = {}

InitETL ==
    /\ PipelineIdle
    /\ etl_entry \in {"transform_silver", "transform_gold"}
    /\ etl_error = "none"
    /\ IF etl_entry = "transform_silver"
       THEN /\ etl_pc = "silver"
            /\ raw_jobs_history \in SeqsUpTo(HistoryRows, MaxHistory)
            /\ raw_jobs_api \in SeqsUpTo(ApiRows, MaxApi)
            /\ jobs = PriorJobs
       ELSE /\ etl_pc = "dim_department"
            /\ raw_jobs_history = <<>>
            /\ raw_jobs_api = <<>>
            /\ jobs \in {[k \in 1..Len(t) |-> [t[k] EXCEPT !.job_id = k]] :
                           t \in SeqsUpTo(GivenJobRows, MaxHistory)}
    /\ dim_department = PriorDimDepartment
    /\ dim_location = PriorDimLocation
    /\ dim_date = <<>>
    /\ fact_jobs = PriorFactJobs

NextETL ==
    \/ TransformSilver
    \/ BuildDimDepartment
    \/ BuildDimLocation
    \/ BuildDimDate
    \/ BuildFactJobs

SpecETL == InitETL /\ [][NextETL]_vars

----------------------------------------------------------------------------
(* Properties of the recruitment ETL *)

\* transform_gold has built the dimensions and the fact table
GoldBuilt == etl_pc = "gold_done"

\* C15: after transform_gold, gold.fact_jobs has exactly one row per row of
\* silver.jobs, whatever silver.jobs holds: no join drops or duplicates a job.
C15_FactCountMatchesSilver ==
    GoldBuilt =>
        /\ Len(fact_jobs) = Len(jobs)
        /\ \A k \in 1..Len(jobs) :
             Cardinality({i \in 1..Len(fact_jobs) : fact_jobs[i].job_id = jobs[k].job_id}) = 1

C15_Witness ==
    /\ GoldBuilt
    /\ Len(jobs) >= 2
    /\ \E k \in 1..Len(fact_jobs) : fact_jobs[k].department_key = Null
    /\ \E k \in 1..Len(fact_jobs) :
         jobs[k].open_date # Null /\ fact_jobs[k].open_date_key = Null
    /\ \E k \in 1..Len(fact_jobs) : fact_jobs[k].close_date_key # Null

\* C16: in every row of gold.fact_jobs built from a bronze input through
\* transform_silver and transform_gold, days_to_fill is NULL or at least 0.
C16_DaysToFillNonNegative ==
    (GoldBuilt /\ etl_entry = "transform_silver") =>
        \A k \in 1..Len(fact_jobs) :
            fact_jobs[k].days_to_fill = Null \/ fact_jobs[k].days_to_fill[1] >= 0

\* C17: after transform_silver followed by transform_gold every row of
\* gold.fact_jobs has a department_key and a location_key that are not NULL
\* and are the keys of the dimension rows of the job's cleaned department and
\* location.
C17_DimensionKeysPresent ==
    (GoldBuilt /\ etl_entry = "transform_silver") =>
        \A k \in 1..Len(fact_jobs) :
            /\ fact_jobs[k].department_key # Null
            /\ fact_jobs[k].location_key # Null
            /\ \E i \in 1..Len(dim_department) :
                 /\ dim_department[i].department_key = fact_jobs[k].department_key[1]
                 /\ <<dim_department[i].department_name>> = jobs[k].department
            /\ \E i \in 1..Len(dim_location) :
                 /\ dim_location[i].location_key = fact_jobs[k].location_key[1]
                 /\ <<dim_location[i].location_name>> = jobs[k].location

C17_Witness ==
    /\ GoldBuilt
    /\ etl_entry = "transform_silver"
    /\ \E k \in 1..Len(raw_jobs_history) : raw_jobs_history[k].department = Null
    /\ \E k \in 1..Len(raw_jobs_api) : raw_jobs_api[k].departments = <<>>
    /\ \E k \in 1..Len(jobs) : jobs[k].department = <<Unknown>>
    /\ \E k \in 1..Len(jobs) : jobs[k].department # <<Unknown>>

----------------------------------------------------------------------------
(* Further properties of train_expanding_window *)

\* the number of rows of the sequence whose week key is key
CountOfWeek(rows, key) == Cardinality({k \in 1..Len(rows) : WeekKey(rows[k]) = key})

\* train_expanding_window returned a table for a feature table with the
\* target column
WFReturned ==
    /\ entry = "train_expanding_window"
    /\ pc = "returned"
    /\ MODEL_CONFIGS[model_name].target \in df.columns

\* C18: for every target week W[i], i >= m, whose cleaned training set has
\* at least 100 rows, train_expanding_window emits exactly one prediction row
\* for every row of that week in the input table, rows with a null feature
\* included.
C18_TestRowsFilled ==
    WFReturned =>
        \A i \in (min_train_weeks + 1)..Len(weeks) :
            CountBefore(CleanRows, weeks[i]) >= MinTrainRows =>
                CountOfWeek(Emitted, weeks[i]) = CountOfWeek(df.rows, weeks[i])

\* the distinct week keys of the table that are below key
WeeksBefore(key) ==
    {WeekKey(df.rows[k]) : k \in 1..Len(df.rows)} \cap {w \in Range(weeks) : w < key}

\* C19 as claimed: in every emitted prediction row train_weeks is the number
\* of distinct week keys among the rows the model was fitted on
C19_Original ==
    \A k \in 1..Len(fits) :
        \A j \in 1..Len(all_predictions[k]) :
            all_predictions[k][j]["train_weeks"] = Cardinality(fits[k].train_keys)

\* C19: in every emitted prediction row train_weeks is the number of distinct
\* week keys of the input table that precede the row's target week, whether
\* or not rows of each of those weeks remain after the rows with a null
\* target or feature are dropped.
C19_Amended ==
    \A k \in 1..Len(fits) :
        \E n \in {Cardinality(WeeksBefore(fits[k].target_week))} :
            \A j \in 1..Len(all_predictions[k]) :
                /\ WeekKey(all_predictions[k][j]) = fits[k].target_week
                /\ all_predictions[k][j]["train_weeks"] = n

C19_Witness ==
    /\ WFReturned
    /\ \E k \in 1..Len(fits) :
         /\ Len(all_predictions[k]) > 0
         /\ all_predictions[k][1]["train_weeks"] = 2
         /\ Cardinality(fits[k].train_keys) = 1

\* the grouping column that tells the rows of a week apart
EntityColumn == MODEL_CONFIGS[model_name].group_cols[Len(MODEL_CONFIGS[model_name].group_cols)]

\* the entities of the rows of week key, in the order of the rows
EntitiesOfWeek(rows, key) ==
    Column(SelectSeq(rows, LAMBDA r : WeekKey(r) = key), EntityColumn)

\* a week's rows are in the order they have in the input table
KeepsInputOrder(key) ==
    \E out \in {EntitiesOfWeek(expanding_predictions.rows, key)} :
        \E kept \in {Range(out)} :
            out = SelectSeq(EntitiesOfWeek(df.rows, key), LAMBDA e : e \in kept)

\* C20: the rows train_expanding_window returns are in ascending order of the
\* week key of their target week, the rows of one week are not interleaved
\* with another week's and keep the relative order they had in the input.
C20_OutputOrder ==
    WFReturned =>
        /\ \A i \in 1..(Len(expanding_predictions.rows) - 1) :
             WeekKey(expanding_predictions.rows[i]) <= WeekKey(expanding_predictions.rows[i + 1])
        /\ \A key \in Range(weeks) : KeepsInputOrder(key)

C20_Witness ==
    /\ WFReturned
    /\ Len(df.rows) > 0
    /\ WeekKey(df.rows[1]) > WeekKey(df.rows[Len(df.rows)])
    /\ \E i \in 1..(Len(expanding_predictions.rows) - 1) :
         /\ WeekKey(expanding_predictions.rows[i + 1]) = WeekKey(expanding_predictions.rows[i])
         /\ WeekKey(expanding_predictions.rows[i])
              < WeekKey(expanding_predictions.rows[Len(expanding_predictions.rows)])

----------------------------------------------------------------------------
(* Further properties of train_final_model *)

\* the holdout prediction row is the one of the row r of the table
PredictionOf(p, r) ==
    /\ p["actual"] = r[MODEL_CONFIGS[model_name].target]
    /\ \A c \in MetaColumns(df, model_name) : p[c] = r[c]

\* C21: with n rows in the cleaned table train_final_model trains on exactly
\* the first floor(0.8 * n) rows in table order and evaluates on exactly the
\* remaining rows, and the holdout predictions it returns have exactly one
\* row per test row, in table order.
C21_HoldoutPartition ==
    RosterScored =>
        \E clean \in {CleanRows} :
        \E n \in {Len(clean)} :
            /\ 10 * final.n_train <= 8 * n
            /\ 8 * n < 10 * (final.n_train + 1)
            /\ final.y_train
                 = [k \in 1..final.n_train |-> clean[k][MODEL_CONFIGS[model_name].target]]
            /\ \A a \in 1..Len(final.metrics) :
                 /\ final.metrics[a].train_samples = final.n_train
                 /\ final.metrics[a].test_samples = n - final.n_train
            /\ pc = "returned" =>
                 /\ Len(final.predictions) = n - final.n_train
                 /\ \A k \in 1..Len(final.predictions) :
                      PredictionOf(final.predictions[k], clean[final.n_train + k])

C21_Witness ==
    /\ RosterScored
    /\ pc = "returned"
    /\ (8 * Len(CleanRows)) % 10 # 0
    /\ Len(final.predictions) >= 2
    /\ \E k \in 1..Len(final.y_train) : final.y_train[k] # final.y_train[1]

----------------------------------------------------------------------------
(* Further properties of calculate_accuracy_breakdowns *)

\* the rows of the holdout predictions a rollup row aggregates
GroupOf(b, row) ==
    SelectSeq(final.predictions,
              LAMBDA r : IF b = "weekly"
                         THEN r["year"] = row.year /\ r["week_number"] = row.week_number
                         ELSE r[b] = row[b])

AbsErrors(rows) ==
    Sum([k \in 1..Len(rows) |-> Abs(FillNa0(rows[k]["actual"]) - rows[k]["predicted"])])

Actuals(rows) == Sum([k \in 1..Len(rows) |-> FillNa0(rows[k]["actual"])])

RolledUp == entry = "main" /\ breakdowns # None /\ final # None /\ pc = "run"

\* C22: in every row of the weekly rollup and of each per-dimension rollup
\* wmape is 100 * (sum of the group's absolute errors) / max(sum of the
\* group's actuals, 1), hence finite and non-negative, also for a group whose
\* actuals sum to zero.
C22_RollupWmapeFloor ==
    RolledUp =>
        \A b \in DOMAIN breakdowns : \A g \in 1..Len(breakdowns[b]) :
            \E rows \in {GroupOf(b, breakdowns[b][g])} :
            \E abs_error \in {AbsErrors(rows)}, actual \in {Actuals(rows)} :
                /\ breakdowns[b][g].wmape.kind = "finite"
                /\ breakdowns[b][g].wmape.num = 100 * abs_error
                /\ breakdowns[b][g].wmape.den = (IF actual >= 1 THEN actual ELSE 1)
                /\ breakdowns[b][g].wmape.num >= 0
                /\ breakdowns[b][g].wmape.den > 0

C22_Witness ==
    /\ RolledUp
    /\ \E g, h \in 1..Len(breakdowns["weekly"]) :
         /\ breakdowns["weekly"][g].actual = 0
         /\ breakdowns["weekly"][h].actual > 0
    /\ \E b \in DOMAIN breakdowns \ {"weekly"} : Len(breakdowns[b]) > 0

----------------------------------------------------------------------------
(* Further properties of run_model_pipeline *)

\* C23: the feature table is read-only input: from the load to the call of
\* train_final_model the frame run_model_pipeline holds has the columns and
\* the rows of the table that was loaded.
C23_FeatureTableReadOnly ==
    (/\ entry = "main"
     /\ pc \in {"wf_start", "wf_loop", "final"}
     /\ warehouse[model_name] # Absent)
        => \E frame \in {TableOf(warehouse[model_name])} :
             /\ df.columns = frame.columns
             /\ df.rows = frame.rows

----------------------------------------------------------------------------
(* Further properties of transform_silver *)

SilverBuilt == etl_entry = "transform_silver" /\ etl_pc \notin {"silver", "raised"}

\* the first row of bronze.raw_jobs_history read with the job_id j
FirstHistory(j) ==
    raw_jobs_history[Min({k \in 1..Len(raw_jobs_history) : raw_jobs_history[k].job_id = j})]

\* C24: after transform silver.jobs has at most one row per job_id; a job_id
\* in both bronze tables carries the API's title, department and location
\* and source 'api' with the open_date, close_date and company_name of the
\* history row; among history rows with the same job_id the first one read
\* wins; every source is 'api' or 'history'.
C24_SilverMergePrecedence ==
    SilverBuilt =>
        /\ \A a, b \in 1..Len(jobs) : jobs[a].job_id = jobs[b].job_id => a = b
        /\ \A a \in 1..Len(jobs) : jobs[a].source \in {"api", "history"}
        /\ \A h \in 1..Len(raw_jobs_history) :
             \E a \in 1..Len(jobs), first \in {FirstHistory(raw_jobs_history[h].job_id)} :
                /\ jobs[a].job_id = first.job_id
                /\ jobs[a].open_date = ParseDate(first.open_date)
                /\ jobs[a].close_date = ParseDate(first.close_date)
                /\ jobs[a].company_name = first.company_name
                /\ IF \E p \in 1..Len(raw_jobs_api) : raw_jobs_api[p].id = first.job_id
                   THEN \A p \in 1..Len(raw_jobs_api) :
                          raw_jobs_api[p].id = first.job_id =>
                            /\ jobs[a].title = Strip(raw_jobs_api[p].title)
                            /\ jobs[a].department
                                 = CleanDepartment(DeptName(raw_jobs_api[p].departments))
                            /\ jobs[a].location = CleanLocation(raw_jobs_api[p].location_name)
                            /\ jobs[a].source = "api"
                   ELSE /\ jobs[a].title = Strip(first.title)
                        /\ jobs[a].department = CleanDepartment(first.department)
                        /\ jobs[a].location = CleanLocation(first.location)
                        /\ jobs[a].source = "history"

C24_Witness ==
    /\ SilverBuilt
    /\ Len(raw_jobs_history) = 2
    /\ raw_jobs_history[1].job_id = raw_jobs_history[2].job_id
    /\ raw_jobs_history[1].company_name # raw_jobs_history[2].company_name
    /\ ParseDate(raw_jobs_history[1].open_date) # ParseDate(raw_jobs_history[2].open_date)
    /\ \E p \in 1..Len(raw_jobs_api) :
         /\ raw_jobs_api[p].id = raw_jobs_history[1].job_id
         /\ Strip(raw_jobs_api[p].title) # Strip(raw_jobs_history[1].title)
         /\ raw_jobs_api[p].updated_at # ParseDate(raw_jobs_history[1].open_date)
    /\ Len(jobs) = 1

====
